---- MODULE Spec2Model ----
(***************************************************************************)
(* A model of the two reasoning plugins of cmem-plugin-robotreason:        *)
(*   - ReasonPlugin       (cmem_plugin_reason/plugin_reason.py, utils.py)  *)
(*   - RobotReasonPlugin  (cmem_plugin_robotreason/plugin_robotreason.py)  *)
(* One behaviour is one plugin instance: its construction and one call of  *)
(* execute, cut into the steps between two external calls (store, engine). *)
(* A step that raises carries the unwinding of the exception with it.      *)
(*                                                                         *)
(* Strings that the code inspects character by character (graph IRIs, file *)
(* names) are sequences of one-character strings; byte strings captured    *)
(* from the engine are sequences of byte values, or of pieces of text      *)
(* where the code looks at their end only. A file is the sequence of its   *)
(* lines, a statement the triple of its subject, predicate and object.     *)
(***************************************************************************)
EXTENDS Naturals, Integers, Sequences, FiniteSets, TLC

(***************************************************************************)
(* Bounds of the model.                                                    *)
(***************************************************************************)
\* most entities the upstream task puts on the input port
MaxEntities == 2
\* most direct imports one graph of the store declares (resolver runs)
MaxImports == 2

(***************************************************************************)
(* Graph identifiers.                                                      *)
(***************************************************************************)
DataIri == <<"h", ":", "d">>
OntoIri == <<"h", ":", "o">>
OutIri == <<"h", ":", "r">>
\* a fourth graph, named like the data graph but for a closing slash
ImpIri == <<"h", ":", "d", "/">>
EmptyStr == << >>

\* the graphs the remote store knows
Graphs == {DataIri, OntoIri, OutIri, ImpIri}

\* the order in which the store serialises graphs in a response
GraphRank(g) ==
    IF g = DataIri THEN 1 ELSE IF g = OntoIri THEN 2 ELSE IF g = OutIri THEN 3 ELSE 4

(***************************************************************************)
(* Sequence helpers.                                                       *)
(***************************************************************************)
Range(s) == {s[i] : i \in 1..Len(s)}

RECURSIVE SetToSeq(_)
SetToSeq(S) ==
    IF S = {} THEN << >>
    ELSE LET g == CHOOSE x \in S : \A y \in S : GraphRank(x) <= GraphRank(y)
         IN <<g>> \o SetToSeq(S \ {g})

RECURSIVE Flatten(_)
Flatten(ss) == IF ss = << >> THEN << >> ELSE Head(ss) \o Flatten(Tail(ss))

\* s[-1] of a Python string: the one-character string made of its last character
LastChar(s) == <<s[Len(s)]>>

(***************************************************************************)
(* validators.url, abstracted to its structure: a non-empty scheme, the    *)
(* scheme separator and a non-empty rest, without blanks.                  *)
(***************************************************************************)
ValidUrl(s) ==
    /\ \E i \in 2..(Len(s) - 1) : s[i] = ":"
    /\ \A i \in 1..Len(s) : s[i] # " "

(***************************************************************************)
(* convert_iri_to_filename (ROBOT variant).                                *)
(***************************************************************************)
WordChars == {"h", "d", "o", "r", "a", "_"}

Lower(c) == IF c = "H" THEN "h" ELSE IF c = "A" THEN "a" ELSE c

\* re.sub(r"\.", "_", ...) and re.sub(r"/", "_", ...) on the lowered value
SubSeparators(s) ==
    [i \in 1..Len(s) |-> IF Lower(s[i]) \in {".", "/"} THEN "_" ELSE Lower(s[i])]

\* re.sub(r"[^\w\s-]", "", ...)
RECURSIVE DropNonWord(_)
DropNonWord(s) ==
    IF s = << >> THEN << >>
    ELSE IF Head(s) \in WordChars \cup {" ", "-"}
         THEN <<Head(s)>> \o DropNonWord(Tail(s))
         ELSE DropNonWord(Tail(s))

\* re.sub(r"[-\s]+", "-", ...)
RECURSIVE CollapseDashes(_)
CollapseDashes(s) ==
    IF s = << >> THEN << >>
    ELSE IF Head(s) \in {"-", " "}
         THEN LET rest == CollapseDashes(Tail(s))
              IN IF rest # << >> /\ Head(rest) = "-" THEN rest ELSE <<"-">> \o rest
         ELSE <<Head(s)>> \o CollapseDashes(Tail(s))

\* .strip("-_")
RECURSIVE StripLeft(_)
StripLeft(s) ==
    IF s # << >> /\ Head(s) \in {"-", "_"} THEN StripLeft(Tail(s)) ELSE s

RECURSIVE StripRight(_)
StripRight(s) ==
    IF s # << >> /\ s[Len(s)] \in {"-", "_"}
    THEN StripRight(SubSeq(s, 1, Len(s) - 1)) ELSE s

convert_iri_to_filename(value) ==
    StripRight(StripLeft(CollapseDashes(DropNonWord(SubSeparators(value)))))
        \o <<".nt">>

\* f"{token_hex(8)}.nt" (Reason variant)
TokenFile(token) == <<token, ".nt">>

CatalogFile == <<"catalog-v001.xml">>
ResultFile == <<"result.ttl">>

(***************************************************************************)
(* Configuration.                                                          *)
(***************************************************************************)
REASONERS == {"elk", "emr", "hermit", "jfact", "structural", "whelk"}

MAX_RAM_PERCENTAGE_DEFAULT == 20

\* the keys of self.axioms
AxiomNames ==
    {"SubClass", "EquivalentClass", "DisjointClasses", "DataPropertyCharacteristic",
     "EquivalentDataProperties", "SubDataProperty", "ClassAssertion",
     "PropertyAssertion", "EquivalentObjectProperty", "InverseObjectProperties",
     "ObjectPropertyCharacteristic", "SubObjectProperty", "ObjectPropertyRange",
     "ObjectPropertyDomain"}

\* the selections of axiom generators tried: none, the default, the tests' choice
AxiomChoices == {{}, {"SubClass"}, {"ClassAssertion", "PropertyAssertion"}}

\* the attributes of an instance that does not exist
NullPlugin ==
    [data_graph_iri |-> EmptyStr, ontology_graph_iri |-> EmptyStr,
     output_graph_iri |-> EmptyStr, reasoner |-> "", axioms |-> {},
     validate_profile |-> FALSE, input_profiles |-> FALSE,
     max_ram_percentage |-> 0]

\* the arguments a workflow may hand to ReasonPlugin.__init__
ReasonArgs ==
    [data_graph_iri : {DataIri},
     ontology_graph_iri : {OntoIri, DataIri, EmptyStr},
     output_graph_iri : {OutIri, DataIri, OntoIri, EmptyStr},
     reasoner : REASONERS \cup {"pellet"},
     axioms : AxiomChoices,
     validate_profile : BOOLEAN,
     input_profiles : BOOLEAN,
     max_ram_percentage : {0, 1, 100, 101}]

\* the arguments a workflow may hand to RobotReasonPlugin.__init__ (its
\* result_iri is kept in output_graph_iri; it has no profile or RAM parameter)
RobotArgs ==
    [data_graph_iri : {DataIri},
     ontology_graph_iri : {OntoIri, DataIri},
     output_graph_iri : {OutIri, DataIri, OntoIri, EmptyStr},
     reasoner : REASONERS \cup {"pellet"},
     axioms : AxiomChoices,
     validate_profile : {FALSE},
     input_profiles : {FALSE},
     max_ram_percentage : {MAX_RAM_PERCENTAGE_DEFAULT}]

NoError == [type |-> "", msg |-> << >>]

Raised(type, msg) == [type |-> type, msg |-> msg]

\* __init__ without its two comparisons of the result graph IRI
NoResultGraphChecks(a) == << >>

\* the checks of ReasonPlugin.__init__ that compare the result graph IRI with
\* the two input graph IRIs
ResultGraphChecks(a) ==
    (IF a.output_graph_iri # EmptyStr /\ a.output_graph_iri = a.data_graph_iri
     THEN <<"Result graph IRI cannot be the same as the data graph IRI.">>
     ELSE << >>)
    \o
    (IF a.output_graph_iri # EmptyStr /\ a.output_graph_iri = a.ontology_graph_iri
     THEN <<"Result graph IRI cannot be the same as the ontology graph IRI.">>
     ELSE << >>)

\* the test of the RAM percentage with the upper end of the range left out
InRangeBelow100(max_ram_percentage) ==
    max_ram_percentage >= 1 /\ max_ram_percentage < 100

\* `max_ram_percentage in range(1, 101)`
InRange1To101(max_ram_percentage) ==
    max_ram_percentage >= 1 /\ max_ram_percentage < 101

\* the sentences ReasonPlugin.__init__ accumulates in errors, in order
ConstructErrors(a) ==
    (IF ~ValidUrl(a.data_graph_iri)
     THEN <<"Invalid IRI for parameter \"Data graph IRI\".">> ELSE << >>)
    \o
    (IF ~ValidUrl(a.ontology_graph_iri)
     THEN <<"Invalid IRI for parameter \"Ontology graph IRI\".">> ELSE << >>)
    \o
    (IF ~ValidUrl(a.output_graph_iri)
     THEN <<"Invalid IRI for parameter \"Result graph IRI\".">> ELSE << >>)
    \o
    ResultGraphChecks(a)
    \o
    (IF a.reasoner \notin REASONERS
     THEN <<"Invalid value for parameter \"Reasoner\".">> ELSE << >>)
    \o
    (IF a.axioms = {}
     THEN <<"No axiom generator selected.">> ELSE << >>)
    \o
    (IF ~InRange1To101(a.max_ram_percentage)
     THEN <<"Invalid value for parameter \"Maximum RAM Percentage\".">> ELSE << >>)

(***************************************************************************)
(* State.                                                                  *)
(***************************************************************************)
VARIABLES
    variant,     \* "reason" (ReasonPlugin) or "robot" (RobotReasonPlugin)
    args,        \* the constructor arguments of this behaviour
    inputs,      \* the inputs of execute: a sequence of [paths, entities]
    imports,     \* the store: graph -> the set of its direct imports
    tokens,      \* the values token_hex(8) has still to return, in order
    self,        \* the attributes of the plugin instance
    pc,          \* where the instance is: new, rejected, ready, the stage, done, failed
    consumed,    \* how many entities of inputs[1].entities next() has taken
    roots,       \* the roots get_graphs_tree has still to visit
    graphs,      \* the closure: a sequence of [iri, file], in insertion order
    fetched,     \* how many closure members get_graphs has gone through
    tempExists,  \* the workspace directory exists
    tempCreated, \* the workspace directory has been created in this execution
    files,       \* the files in the workspace: name -> content
    calls,       \* the external calls made so far: [kind, target, ok]
    engine,      \* the CompletedProcess of the reasoning run
    upload,      \* the status code the store answered the upload with (0: none)
    valid_profiles, \* the profiles post_valid_profiles handed to post_profiles
    checks,      \* the profile checks validate_profiles ran: [profile, stdout]
    prov,        \* what get_provenance returned: "unset", "none", "record"
    warnings,    \* the warnings logged
    report,      \* the operation_desc of the last execution report
    error        \* the exception that left __init__ or execute

vars ==
    <<variant, args, inputs, imports, tokens, self, pc, consumed, roots, graphs,
      fetched, tempExists, tempCreated, files, calls, engine, upload,
      valid_profiles, checks, prov, warnings, report, error>>

\* what never changes after Init: the variant, the arguments, the inputs, the store
envVars == <<variant, args, inputs, imports>>

(***************************************************************************)
(* The environment of one behaviour.                                       *)
(***************************************************************************)
NoImports == [g \in Graphs |-> {}]

\* the stores of the pipeline runs: one without imports, one in which the data
\* graph imports the ontology and the output graph, and the ontology imports a
\* fourth graph
StoreChoices ==
    {NoImports,
     [NoImports EXCEPT ![DataIri] = {OntoIri, OutIri}, ![OntoIri] = {ImpIri}]}

\* the stores of the resolver runs: every import relation without self-import
\* in which a graph declares at most MaxImports imports
AllStores ==
    {f \in [Graphs -> SUBSET Graphs] :
        \A g \in Graphs : g \notin f[g] /\ Cardinality(f[g]) <= MaxImports}

\* token_hex(8): the draws of one run, pairwise different
TokenStream == <<"t1", "t2", "t3", "t4", "t5">>

\* the values of one entity under the schema (profile, ontology)
EntityValues ==
    {<< <<"Full", "DL">>, <<OntoIri>> >>, << <<"EL">>, <<ImpIri>> >>}

SeqsUpTo(S, n) == UNION {[1..k -> S] : k \in 1..n}

\* ReasonPlugin.__init__ declares one input port exactly when validate_profile
\* and input_profiles are both set; the port carries the schema of
\* generate_input_schema
InputsFor(a) ==
    IF a.validate_profile /\ a.input_profiles
    THEN {<<[paths |-> <<"profile", "ontology">>, entities |-> es]>> :
            es \in SeqsUpTo(EntityValues, MaxEntities)}
    ELSE {<< >>}

\* an empty directory
NoFiles == [name \in {} |-> << >>]

NoProcess == [returncode |-> -1, stdout |-> << >>, stderr |-> << >>]

InitRest ==
    /\ tokens = TokenStream
    /\ self = NullPlugin
    /\ pc = "new"
    /\ consumed = 0
    /\ roots = << >>
    /\ graphs = << >>
    /\ fetched = 0
    /\ tempExists = FALSE
    /\ tempCreated = FALSE
    /\ files = NoFiles
    /\ calls = << >>
    /\ engine = NoProcess
    /\ upload = 0
    /\ valid_profiles = << >>
    /\ checks = << >>
    /\ prov = "unset"
    /\ warnings = << >>
    /\ report = ""
    /\ error = NoError

Init ==
    /\ variant \in {"reason", "robot"}
    /\ args \in (IF variant = "reason" THEN ReasonArgs ELSE RobotArgs)
    /\ inputs \in InputsFor(args)
    /\ imports \in StoreChoices
    /\ InitRest

\* the resolver runs: a valid configuration over every store
TreeArgs ==
    {a \in RobotArgs :
        /\ a.data_graph_iri = DataIri
        /\ a.output_graph_iri = OutIri
        /\ a.reasoner = "elk"
        /\ a.axioms = {"SubClass"}}

InitTree ==
    /\ variant \in {"reason", "robot"}
    /\ args \in TreeArgs
    /\ inputs = << >>
    /\ imports \in AllStores
    /\ InitRest

(***************************************************************************)
(* Helpers of the actions.                                                 *)
(***************************************************************************)
\* an external call: graph is the graph named in the GRAPH clause of a SPARQL
\* update, empty for the other calls
Call(kind, target, ok) ==
    [kind |-> kind, target |-> target, ok |-> ok, graph |-> EmptyStr]

\* post_update of an `INSERT DATA { GRAPH <{plugin.output_graph_iri}> {...} }`
Update(what, me, ok) ==
    [Call("post_update", <<what>>, ok) EXCEPT !.graph = me.output_graph_iri]

Keys(gs) == {gs[i].iri : i \in 1..Len(gs)}

\* a file is written: created, or truncated and filled anew
Write(fs, name, content) ==
    [n \in DOMAIN fs \cup {name} |-> IF n = name THEN content ELSE fs[n]]

\* a file is removed
Remove(fs, name) == [n \in DOMAIN fs \ {name} |-> fs[n]]

\* a workspace made with mkdtemp and never removed
KeepTemporaryDirectory(exists) == exists

\* `with TemporaryDirectory() as self.temp`: the directory after the block is
\* left, by return or by exception
TemporaryDirectoryExit(exists) == FALSE

\* an exception leaves execute: in the Reason variant through the with block of
\* the workspace, in the ROBOT variant with nothing in its way
Unwind(err, dir, fs) ==
    /\ pc' = "failed"
    /\ error' = err
    /\ tempExists' = IF variant = "reason" THEN TemporaryDirectoryExit(dir) ELSE dir
    /\ files' = IF variant = "reason" THEN NoFiles ELSE fs

StoreError(what) == Raised("HTTPError", <<what>>)

(***************************************************************************)
(* __init__                                                                *)
(***************************************************************************)
ReasonInit ==
    /\ pc = "new"
    /\ variant = "reason"
    /\ LET errors == ConstructErrors(args)
       IN IF errors # << >>
          THEN /\ pc' = "rejected"
               /\ error' = Raised("ValueError", errors)
               /\ self' = self
          ELSE /\ pc' = "ready"
               /\ error' = error
               /\ self' = args
    /\ UNCHANGED <<envVars, tokens, consumed, roots, graphs, fetched, tempExists,
                   tempCreated, files, calls, engine, upload, valid_profiles, checks, prov,
                   warnings, report>>

RobotInit ==
    /\ pc = "new"
    /\ variant = "robot"
    /\ self' = args
    /\ pc' = "ready"
    /\ UNCHANGED <<envVars, tokens, consumed, roots, graphs, fetched, tempExists,
                   tempCreated, files, calls, engine, upload, valid_profiles, checks, prov,
                   warnings, report, error>>

(***************************************************************************)
(* execute, up to the first stage                                          *)
(***************************************************************************)
\* paths.index(name): 0 stands for the ValueError of list.index
IndexOf(paths, name) ==
    IF name \in Range(paths) THEN CHOOSE i \in 1..Len(paths) : paths[i] = name ELSE 0

\* the sentences ReasonPlugin.execute accumulates for the ontology taken from
\* the input
InputErrors(paths, onto, me) ==
    (IF "profile" \notin Range(paths)
     THEN <<"No value for \"profile\" given on input.">> ELSE << >>)
    \o
    (IF ~ValidUrl(onto)
     THEN <<"Invalid IRI for parameter \"Ontology graph IRI\".">> ELSE << >>)
    \o
    (IF onto = me.data_graph_iri
     THEN <<"Ontology graph IRI cannot be the same as the data graph IRI.">>
     ELSE << >>)
    \o
    (IF onto = me.output_graph_iri
     THEN <<"Ontology graph IRI cannot be the same as the output graph IRI.">>
     ELSE << >>)

\* execute raises before the workspace exists
RaiseEarly(err) ==
    /\ pc' = "failed"
    /\ error' = err
    /\ UNCHANGED <<roots, tempExists, tempCreated>>

\* the with block is entered: the workspace exists, _execute starts
EnterWorkspace ==
    /\ pc' = "tree"
    /\ tempExists' = TRUE
    /\ tempCreated' = TRUE
    /\ roots' = <<self'.data_graph_iri, self'.ontology_graph_iri>>
    /\ error' = error

ReasonExecute ==
    /\ pc = "ready"
    /\ variant = "reason"
    /\ report' = "ontologies and data graphs processed."
    /\ IF ~self.input_profiles
       THEN /\ UNCHANGED <<self, consumed>>
            /\ EnterWorkspace
       ELSE IF inputs = << >>
       THEN \* inputs[0] is evaluated before `if not inputs`
            /\ RaiseEarly(Raised("IndexError", <<"tuple index out of range">>))
            /\ UNCHANGED <<self, consumed>>
       ELSE IF consumed >= Len(inputs[1].entities)
       THEN /\ RaiseEarly(Raised("StopIteration", << >>))
            /\ UNCHANGED <<self, consumed>>
       ELSE LET values == inputs[1].entities[consumed + 1]
                paths == inputs[1].paths
                at == IndexOf(paths, "ontology")
            IN /\ consumed' = consumed + 1
               /\ IF at = 0
                  THEN /\ RaiseEarly(Raised("ValueError",
                                            <<"'ontology' is not in list">>))
                       /\ self' = self
                  ELSE IF values[at] = << >>
                  THEN /\ RaiseEarly(Raised("IndexError",
                                            <<"list index out of range">>))
                       /\ self' = self
                  ELSE /\ self' = [self EXCEPT !.ontology_graph_iri = values[at][1]]
                       /\ LET errors == InputErrors(paths, values[at][1], self)
                          IN IF errors # << >>
                             THEN RaiseEarly(Raised("ValueError", errors))
                             ELSE EnterWorkspace
    /\ UNCHANGED <<envVars, tokens, graphs, fetched, files, calls, engine, upload,
                   valid_profiles, checks, prov, warnings>>

RobotExecute ==
    /\ pc = "ready"
    /\ variant = "robot"
    /\ pc' = "tree"
    /\ roots' = <<self.data_graph_iri, self.ontology_graph_iri>>
    /\ UNCHANGED <<envVars, tokens, self, consumed, graphs, fetched, tempExists,
                   tempCreated, files, calls, engine, upload, valid_profiles, checks, prov,
                   warnings, report, error>>

(***************************************************************************)
(* get_graph_import_tree of the store: the import tree below a graph, as a *)
(* mapping from each graph of the tree to its direct imports.              *)
(***************************************************************************)
DirectImports(g) == IF g \in DOMAIN imports THEN imports[g] ELSE {}

RECURSIVE Reachable(_)
Reachable(S) ==
    LET N == S \cup UNION {DirectImports(g) : g \in S}
    IN IF N = S THEN S ELSE Reachable(N)

ImportTree(root) == [g \in Reachable({root}) |-> DirectImports(g)]

\* the identifiers met by `for value in tree["tree"].values(): for iri in value`
TreeValues(tree) ==
    Flatten([i \in 1..Cardinality(DOMAIN tree) |->
                SetToSeq(tree[SetToSeq(DOMAIN tree)[i]])])

(***************************************************************************)
(* get_graphs_tree                                                         *)
(***************************************************************************)
\* the test of utils.get_graphs_tree on an imported identifier: graph_iri is
\* the root being visited, a string, and graph_iri[-1] its last character
ReasonAdmits(gs, iri, graph_iri) ==
    iri \notin Keys(gs) /\ iri # LastChar(graph_iri)

\* the inner loops of utils.get_graphs_tree: [graphs, tokens] after them
RECURSIVE ReasonAddImports(_, _, _, _)
ReasonAddImports(gs, toks, iris, graph_iri) ==
    IF iris = << >> THEN [graphs |-> gs, tokens |-> toks]
    ELSE IF ReasonAdmits(gs, Head(iris), graph_iri)
    THEN ReasonAddImports(
            Append(gs, [iri |-> Head(iris), file |-> TokenFile(Head(toks))]),
            Tail(toks), Tail(iris), graph_iri)
    ELSE ReasonAddImports(gs, toks, Tail(iris), graph_iri)

\* the inner loops of RobotReasonPlugin.get_graphs_tree
RECURSIVE RobotAddImports(_, _)
RobotAddImports(gs, iris) ==
    IF iris = << >> THEN gs
    ELSE IF Head(iris) \notin Keys(gs)
    THEN RobotAddImports(
            Append(gs, [iri |-> Head(iris),
                        file |-> convert_iri_to_filename(Head(iris))]),
            Tail(iris))
    ELSE RobotAddImports(gs, Tail(iris))

AfterRoots == IF Tail(roots) = << >> THEN "fetch" ELSE "tree"

\* one turn of `for graph_iri in graph_iris[:-1]` of utils.get_graphs_tree
ReasonGetGraphsTree ==
    /\ pc = "tree"
    /\ variant = "reason"
    /\ LET graph_iri == Head(roots)
       IN IF graph_iri \in Keys(graphs)
          THEN /\ pc' = AfterRoots
               /\ UNCHANGED <<graphs, tokens, calls, tempExists, files, error>>
          ELSE \E ok \in BOOLEAN :
               LET own == Append(graphs, [iri |-> graph_iri,
                                          file |-> TokenFile(Head(tokens))])
                   all == ReasonAddImports(own, Tail(tokens),
                                           TreeValues(ImportTree(graph_iri)),
                                           graph_iri)
               IN /\ calls' = Append(calls, Call("get_graph_import_tree", graph_iri, ok))
                  /\ IF ok
                     THEN /\ graphs' = all.graphs
                          /\ tokens' = all.tokens
                          /\ pc' = AfterRoots
                          /\ UNCHANGED <<tempExists, files, error>>
                     ELSE /\ graphs' = own
                          /\ tokens' = Tail(tokens)
                          /\ Unwind(StoreError("get_graph_import_tree"),
                                    tempExists, files)
    /\ roots' = Tail(roots)
    /\ UNCHANGED <<envVars, self, consumed, fetched, tempCreated, engine, upload,
                   valid_profiles, checks, prov, warnings, report>>

\* one turn of the loop over (data_graph_iri, ontology_graph_iri) of
\* RobotReasonPlugin.get_graphs_tree
RobotGetGraphsTree ==
    /\ pc = "tree"
    /\ variant = "robot"
    /\ LET graph_iri == Head(roots)
       IN IF graph_iri \in Keys(graphs)
          THEN /\ pc' = AfterRoots
               /\ UNCHANGED <<graphs, calls, tempExists, files, error>>
          ELSE \E ok \in BOOLEAN :
               LET own == Append(graphs, [iri |-> graph_iri,
                                          file |-> convert_iri_to_filename(graph_iri)])
               IN /\ calls' = Append(calls, Call("get_graph_import_tree", graph_iri, ok))
                  /\ IF ok
                     THEN /\ graphs' = RobotAddImports(
                                          own, TreeValues(ImportTree(graph_iri)))
                          /\ pc' = AfterRoots
                          /\ UNCHANGED <<tempExists, files, error>>
                     ELSE /\ graphs' = own
                          /\ Unwind(StoreError("get_graph_import_tree"),
                                    tempExists, files)
    /\ roots' = Tail(roots)
    /\ UNCHANGED <<envVars, tokens, self, consumed, fetched, tempCreated, engine,
                   upload, valid_profiles, checks, prov, warnings, report>>

(***************************************************************************)
(* get_graphs                                                              *)
(***************************************************************************)
\* f"<{graph}> <http://www.w3.org/2002/07/owl#imports> <{imported}> ."; a
\* statement is the triple of its subject, its predicate and its object
ImportsStatement(graph, imported) ==
    <<graph, "http://www.w3.org/2002/07/owl#imports", imported>>

\* get(iri).text.splitlines(): the store serialises a graph as its label, its
\* import statements and its type, one statement a line
GraphText(iri) ==
    <<<<iri, "http://www.w3.org/2000/01/rdf-schema#label", <<"graph">>>>>>
    \o [i \in 1..Cardinality(DirectImports(iri)) |->
            ImportsStatement(iri, SetToSeq(DirectImports(iri))[i])]
    \o <<<<iri, "http://www.w3.org/1999/02/22-rdf-syntax-ns#type",
           <<"http://www.w3.org/2002/07/owl#Ontology">>>>>>

\* get_graphs writing every line it is given
ReasonStagedUnfiltered(iri) ==
    GraphText(iri)
    \o (IF iri = self.data_graph_iri
        THEN <<ImportsStatement(iri, self.ontology_graph_iri)>> ELSE << >>)

\* the lines ReasonPlugin.get_graphs writes to the file of a graph
ReasonStaged(iri) ==
    LET Kept(line) == line # ImportsStatement(iri, self.output_graph_iri)
    IN SelectSeq(GraphText(iri), Kept)
       \o (IF iri = self.data_graph_iri
           THEN <<ImportsStatement(iri, self.ontology_graph_iri)>> ELSE << >>)

\* the lines RobotReasonPlugin.get_graphs writes to the file of a graph
RobotStaged(graph) ==
    GraphText(graph)
    \o (IF graph = self.data_graph_iri
        THEN <<ImportsStatement(graph, self.ontology_graph_iri)>> ELSE << >>)

\* get_graphs returning after the first graph
AfterFirstFetch == "catalog"

\* where get_graphs stands after one more graph: the loop goes on, or the
\* catalog is next
AfterFetch == IF fetched + 1 = Len(graphs) THEN "catalog" ELSE "fetch"

\* one turn of `for iri, filename in graphs.items()` of ReasonPlugin.get_graphs:
\* the file is opened for writing, then the graph is fetched
ReasonGetGraphs ==
    /\ pc = "fetch"
    /\ variant = "reason"
    /\ LET entry == graphs[fetched + 1]
       IN \E ok \in BOOLEAN :
          /\ calls' = Append(calls, Call("get", entry.iri, ok))
          /\ IF ok
             THEN /\ files' = Write(files, entry.file, ReasonStaged(entry.iri))
                  /\ fetched' = fetched + 1
                  /\ pc' = AfterFetch
                  /\ UNCHANGED <<tempExists, error>>
             ELSE /\ fetched' = fetched
                  /\ Unwind(StoreError("get"), tempExists,
                            Write(files, entry.file, << >>))
    /\ UNCHANGED <<envVars, tokens, self, consumed, roots, graphs, tempCreated,
                   engine, upload, valid_profiles, checks, prov, warnings, report>>

\* RobotReasonPlugin.get_graphs: the directory is made if it is missing, then
\* one turn of `for graph in graphs`
RobotGetGraphs ==
    /\ pc = "fetch"
    /\ variant = "robot"
    /\ tempCreated' = (tempCreated \/ ~tempExists)
    /\ LET entry == graphs[fetched + 1]
       IN \E ok \in BOOLEAN :
          /\ calls' = Append(calls, Call("get", entry.iri, ok))
          /\ IF ok
             THEN /\ files' = Write(files, entry.file, RobotStaged(entry.iri))
                  /\ tempExists' = TRUE
                  /\ fetched' = fetched + 1
                  /\ pc' = AfterFetch
                  /\ error' = error
             ELSE /\ fetched' = fetched
                  /\ Unwind(StoreError("get"), TRUE, Write(files, entry.file, << >>))
    /\ UNCHANGED <<envVars, tokens, self, consumed, roots, graphs, engine, upload,
                   valid_profiles, checks, prov, warnings, report>>

(***************************************************************************)
(* create_xml_catalog_file                                                 *)
(***************************************************************************)
\* the uri elements of a catalog whose entries all take the first id
CatalogEntriesOneId(gs) ==
    [i \in 1..Len(gs) |->
        [id |-> <<"id", ToString(0)>>, name |-> gs[i].iri, uri |-> gs[i].file]]

\* the uri elements of the catalog: `for i, graph in enumerate(graphs)`, with
\* id f"id{i}", name graph and uri graphs[graph]
CatalogEntries(gs) ==
    [i \in 1..Len(gs) |->
        [id |-> <<"id", ToString(i - 1)>>, name |-> gs[i].iri, uri |-> gs[i].file]]

CreateXmlCatalogFile ==
    /\ pc = "catalog"
    /\ files' = Write(files, CatalogFile, CatalogEntries(graphs))
    /\ pc' = "reason"
    /\ UNCHANGED <<envVars, tokens, self, consumed, roots, graphs, fetched,
                   tempExists, tempCreated, calls, engine, upload, valid_profiles, checks,
                   prov, warnings, report, error>>

(***************************************************************************)
(* reason                                                                  *)
(***************************************************************************)
\* what the engine may print when it fails: nothing, or some ASCII text
StdoutChoices == {<< >>, <<111, 117, 116>>}
StderrChoices == {<< >>, <<101, 114, 114>>}

\* bytes.decode() on the ASCII bytes the engine prints
Chr(b) ==
    IF b = 111 THEN "o" ELSE IF b = 117 THEN "u" ELSE IF b = 116 THEN "t"
    ELSE IF b = 101 THEN "e" ELSE IF b = 114 THEN "r" ELSE "?"

Decode(bytes) == [i \in 1..Len(bytes) |-> Chr(bytes[i])]

\* reason with the two tests on the captured output exchanged
RobotFailureStderrFirst(response) ==
    IF response.stderr # << >> THEN Raised("OSError", Decode(response.stderr))
    ELSE IF response.stdout # << >> THEN Raised("OSError", Decode(response.stdout))
    ELSE Raised("OSError", <<"ROBOT error">>)

\* the exception ReasonPlugin.reason raises for a response with returncode != 0
RobotFailure(response) ==
    IF response.stdout # << >> THEN Raised("OSError", Decode(response.stdout))
    ELSE IF response.stderr # << >> THEN Raised("OSError", Decode(response.stderr))
    ELSE Raised("OSError", <<"ROBOT error">>)

\* what the engine writes to result.ttl
Inferred == <<"inferred axioms">>

\* the exit statuses of the engine; it cannot succeed with an unknown reasoner
ExitStatuses == IF self.reasoner \in REASONERS THEN {0, 1} ELSE {1}

\* ReasonPlugin.reason: robot() is run and its response interpreted; the
\* output of a run that succeeds is not read
ReasonReason ==
    /\ pc = "reason"
    /\ variant = "reason"
    /\ \E rc \in ExitStatuses, out \in StdoutChoices, err \in StderrChoices :
          /\ rc = 0 => (out = << >> /\ err = << >>)
          /\ engine' = [returncode |-> rc, stdout |-> out, stderr |-> err]
          /\ calls' = Append(calls, Call("robot", <<"reason">>, rc = 0))
          /\ IF engine'.returncode # 0
             THEN Unwind(RobotFailure(engine'), tempExists, files)
             ELSE /\ files' = Write(files, ResultFile, Inferred)
                  /\ pc' = "send"
                  /\ UNCHANGED <<tempExists, error>>
    /\ UNCHANGED <<envVars, tokens, self, consumed, roots, graphs, fetched,
                   tempCreated, upload, valid_profiles, checks, prov, warnings, report>>

\* RobotReasonPlugin.reason: set_axioms while the command is built, then
\* run(..., check=False), whose result is dropped; a run that fails may or
\* may not have written result.ttl
RobotReason ==
    /\ pc = "reason"
    /\ variant = "robot"
    /\ IF self.axioms = {}
       THEN /\ Unwind(Raised("ValueError", <<"No axioms selected.">>),
                      tempExists, files)
            /\ UNCHANGED <<engine, calls>>
       ELSE \E rc \in ExitStatuses, wrote \in BOOLEAN :
            /\ rc = 0 => wrote
            /\ engine' = [returncode |-> rc, stdout |-> << >>, stderr |-> << >>]
            /\ calls' = Append(calls, Call("robot", <<"reason">>, rc = 0))
            /\ files' = IF wrote THEN Write(files, ResultFile, Inferred) ELSE files
            /\ pc' = "send"
            /\ UNCHANGED <<tempExists, error>>
    /\ UNCHANGED <<envVars, tokens, self, consumed, roots, graphs, fetched,
                   tempCreated, upload, valid_profiles, checks, prov, warnings, report>>

(***************************************************************************)
(* send_result                                                             *)
(***************************************************************************)
HTTP_NO_CONTENT == 204

\* the status codes the store answers an upload with
StatusCodes == {HTTP_NO_CONTENT, 200, 500}

\* send_result without its test of the status code
SendResultUnchecked(status_code) == NoError

\* utils.send_result on the response of post_streamed: the exception raised,
\* NoError for none
SendResultCheck(status_code) ==
    IF status_code # HTTP_NO_CONTENT
    THEN Raised("OSError", <<"Error posting result graph (status code ",
                            ToString(status_code), ").">>)
    ELSE NoError

\* RobotReasonPlugin.send_result drops the response of post_streamed
RobotSendResultCheck(status_code) == NoError

AfterSend ==
    IF variant = "robot" THEN "cleanup"
    ELSE IF self.validate_profile THEN "profiles" ELSE "prov"

\* post_streamed raised (the request did not get through)
SendRaises ==
    /\ calls' = Append(calls, Call("post_streamed", self.output_graph_iri, FALSE))
    /\ upload' = upload
    /\ Unwind(StoreError("post_streamed"), tempExists, files)

\* post_streamed returned a response with this status code
SendReturns(status_code, check) ==
    /\ calls' = Append(calls, Call("post_streamed", self.output_graph_iri,
                                   status_code = HTTP_NO_CONTENT))
    /\ upload' = status_code
    /\ IF check # NoError
       THEN Unwind(check, tempExists, files)
       ELSE /\ pc' = AfterSend
            /\ UNCHANGED <<tempExists, files, error>>

ReasonSendResult ==
    /\ pc = "send"
    /\ variant = "reason"
    /\ \/ SendRaises
       \/ \E status_code \in StatusCodes :
             SendReturns(status_code, SendResultCheck(status_code))
    /\ UNCHANGED <<envVars, tokens, self, consumed, roots, graphs, fetched,
                   tempCreated, engine, valid_profiles, checks, prov, warnings, report>>

\* post_streamed opens the file before it sends anything
RobotSendResult ==
    /\ pc = "send"
    /\ variant = "robot"
    /\ IF ResultFile \notin DOMAIN files
       THEN /\ Unwind(Raised("FileNotFoundError", ResultFile), tempExists, files)
            /\ UNCHANGED <<calls, upload>>
       ELSE \/ SendRaises
            \/ \E status_code \in StatusCodes :
                  SendReturns(status_code, RobotSendResultCheck(status_code))
    /\ UNCHANGED <<envVars, tokens, self, consumed, roots, graphs, fetched,
                   tempCreated, engine, valid_profiles, checks, prov, warnings, report>>

(***************************************************************************)
(* post_valid_profiles, validate_profiles, post_profiles                   *)
(***************************************************************************)
PROFILES == <<"Full", "DL", "EL", "QL", "RL">>

\* The captured output of a profile check is a sequence of pieces of text, a
\* line break being a piece of its own.
\* b"[Ontology and imports closure in profile]\n\n"
InProfileMarker == <<"[Ontology and imports closure in profile]", "\n", "\n">>

\* what the engine prints for an ontology that is in the profile
InProfile(profile) == <<profile, " Profile Report: ">> \o InProfileMarker

\* what the engine prints for an ontology that is not in the profile
NotInProfile(profile) ==
    <<profile, " Profile Report: ",
      "[Ontology and imports closure NOT in profile]", "\n", "\n",
      "violation", "\n">>

\* outputs that hold the marker without ending with it, and no output at all
MarkerOneBreak(profile) ==
    <<profile, " Profile Report: ",
      "[Ontology and imports closure in profile]", "\n">>

MarkerThenText(profile) == InProfile(profile) \o <<"done", "\n">>

\* the outputs tried for the check of one profile
OutputChoices(profile) ==
    IF profile = "Full"
    THEN {InProfile(profile), NotInProfile(profile), MarkerOneBreak(profile)}
    ELSE IF profile = "DL" THEN {InProfile(profile), << >>}
    ELSE IF profile = "EL" THEN {InProfile(profile), MarkerThenText(profile)}
    ELSE IF profile = "QL" THEN {InProfile(profile), NotInProfile(profile)}
    ELSE {InProfile(profile), MarkerOneBreak(profile)}

\* what the five checks would print, were they run
ProfileOutputs ==
    {[p \in Range(PROFILES) |->
         IF p = "Full" THEN full ELSE IF p = "DL" THEN dl
         ELSE IF p = "EL" THEN el ELSE IF p = "QL" THEN ql ELSE rl] :
        full \in OutputChoices("Full"), dl \in OutputChoices("DL"),
        el \in OutputChoices("EL"), ql \in OutputChoices("QL"),
        rl \in OutputChoices("RL")}

\* bytes.endswith
EndsWith(bytes, suffix) ==
    /\ Len(bytes) >= Len(suffix)
    /\ SubSeq(bytes, Len(bytes) - Len(suffix) + 1, Len(bytes)) = suffix

NoChecks == [valid_profiles |-> << >>, checks |-> << >>]

\* validate_profiles without the break
RECURSIVE validate_profiles_no_break(_, _, _)
validate_profiles_no_break(profiles, stdout, done) ==
    IF profiles = << >> THEN done
    ELSE LET profile == Head(profiles)
             ran == Append(done.checks,
                           [profile |-> profile, stdout |-> stdout[profile]])
         IN IF EndsWith(stdout[profile], InProfileMarker)
            THEN validate_profiles_no_break(
                    Tail(profiles), stdout,
                    [valid_profiles |-> Append(done.valid_profiles, profile),
                     checks |-> ran])
            ELSE validate_profiles_no_break(
                    Tail(profiles), stdout,
                    [valid_profiles |-> done.valid_profiles, checks |-> ran])

\* validate_profiles with a break at every check that fails
RECURSIVE validate_profiles_break_always(_, _, _)
validate_profiles_break_always(profiles, stdout, done) ==
    IF profiles = << >> THEN done
    ELSE LET profile == Head(profiles)
             ran == Append(done.checks,
                           [profile |-> profile, stdout |-> stdout[profile]])
         IN IF EndsWith(stdout[profile], InProfileMarker)
            THEN validate_profiles_break_always(
                    Tail(profiles), stdout,
                    [valid_profiles |-> Append(done.valid_profiles, profile),
                     checks |-> ran])
            ELSE [valid_profiles |-> done.valid_profiles, checks |-> ran]

\* the loop of validate_profiles over the profiles left, stdout[profile] being
\* what the check of the profile prints: [valid_profiles, checks] after it
RECURSIVE validate_profiles(_, _, _)
validate_profiles(profiles, stdout, done) ==
    IF profiles = << >> THEN done
    ELSE LET profile == Head(profiles)
             ran == Append(done.checks,
                           [profile |-> profile, stdout |-> stdout[profile]])
         IN IF EndsWith(stdout[profile], InProfileMarker)
            THEN validate_profiles(
                    Tail(profiles), stdout,
                    [valid_profiles |-> Append(done.valid_profiles, profile),
                     checks |-> ran])
            ELSE IF profile = "Full"
            THEN [valid_profiles |-> done.valid_profiles, checks |-> ran]
            ELSE validate_profiles(
                    Tail(profiles), stdout,
                    [valid_profiles |-> done.valid_profiles, checks |-> ran])

\* the calls of robot() behind the checks
ProfileCalls(ran) ==
    [i \in 1..Len(ran) |->
        Call("robot", <<"validate-profile", ran[i].profile>>,
             EndsWith(ran[i].stdout, InProfileMarker))]

\* post_profiles with the list, after the calls made to come by it
PostProfiles(profiles, made) ==
    /\ valid_profiles' = profiles
    /\ IF profiles = << >>
       THEN /\ calls' = made
            /\ pc' = "prov"
            /\ UNCHANGED <<tempExists, files, error>>
       ELSE \E ok \in BOOLEAN :
            /\ calls' = Append(made, Update("profile", self, ok))
            /\ IF ok
               THEN /\ pc' = "prov"
                    /\ UNCHANGED <<tempExists, files, error>>
               ELSE Unwind(StoreError("post_update"), tempExists, files)

PostValidProfiles ==
    /\ pc = "profiles"
    /\ IF self.input_profiles
       THEN IF consumed >= Len(inputs[1].entities)
            THEN \* next() on the iterator execute has already advanced
                 /\ Unwind(Raised("StopIteration", << >>), tempExists, files)
                 /\ UNCHANGED <<consumed, calls, valid_profiles, checks>>
            ELSE /\ consumed' = consumed + 1
                 /\ checks' = checks
                 /\ PostProfiles(
                       inputs[1].entities[consumed + 1][
                           IndexOf(inputs[1].paths, "profile")],
                       calls)
       ELSE /\ consumed' = consumed
            /\ \E stdout \in ProfileOutputs :
                  LET done == validate_profiles(PROFILES, stdout, NoChecks)
                  IN /\ checks' = done.checks
                     /\ PostProfiles(done.valid_profiles,
                                     calls \o ProfileCalls(done.checks))
    /\ UNCHANGED <<envVars, tokens, self, roots, graphs, fetched, tempCreated,
                   engine, upload, prov, warnings, report>>

(***************************************************************************)
(* get_provenance, post_provenance, the end of execute                     *)
(***************************************************************************)
Warning(text, file) == [text |-> text, file |-> file]

\* get_provenance: the type query, and the parameter query when the task has
\* a type and a label
GetProvenance ==
    /\ pc = "prov"
    /\ \E ok \in BOOLEAN, found \in BOOLEAN, ok2 \in BOOLEAN :
          /\ ~ok => (found /\ ok2)
          /\ ~found => ok2
          /\ IF ~ok
             THEN /\ calls' = Append(calls, Call("post_select", <<"type">>, FALSE))
                  /\ Unwind(StoreError("post_select"), tempExists, files)
                  /\ UNCHANGED <<prov, warnings>>
             ELSE IF ~found
             THEN /\ calls' = Append(calls, Call("post_select", <<"type">>, TRUE))
                  /\ warnings' = Append(warnings, Warning(
                        "Could not add provenance data to output graph.", << >>))
                  /\ prov' = "none"
                  /\ pc' = "post_prov"
                  /\ UNCHANGED <<tempExists, files, error>>
             ELSE /\ calls' = calls \o <<Call("post_select", <<"type">>, TRUE),
                                         Call("post_select", <<"parameter">>, ok2)>>
                  /\ warnings' = warnings
                  /\ IF ok2
                     THEN /\ prov' = "record"
                          /\ pc' = "post_prov"
                          /\ UNCHANGED <<tempExists, files, error>>
                     ELSE /\ prov' = prov
                          /\ Unwind(StoreError("post_select"), tempExists, files)
    /\ UNCHANGED <<envVars, tokens, self, consumed, roots, graphs, fetched,
                   tempCreated, engine, upload, valid_profiles, checks, report>>

\* _execute returns: the report is updated and the with block is left
ExecuteReturns ==
    /\ report' = "ontology and data graph processed."
    /\ pc' = "done"
    /\ tempExists' = TemporaryDirectoryExit(tempExists)
    /\ files' = NoFiles
    /\ error' = error

\* post_provenance taking whatever it is handed for provenance data
AlwaysTruthy(p) == TRUE

\* the truth value of what get_provenance returned, as `if not prov` takes it:
\* None is false, the dictionary of the record is true
Truthy(p) == p = "record"

\* post_provenance, then the rest of _execute and of execute
PostProvenance ==
    /\ pc = "post_prov"
    /\ IF ~Truthy(prov)
       THEN /\ calls' = calls
            /\ ExecuteReturns
       ELSE \E ok \in BOOLEAN :
            /\ calls' = Append(calls, Update("provenance", self, ok))
            /\ IF ok
               THEN ExecuteReturns
               ELSE /\ Unwind(StoreError("post_update"), tempExists, files)
                    /\ report' = report
    /\ UNCHANGED <<envVars, tokens, self, consumed, roots, graphs, fetched,
                   tempCreated, engine, upload, valid_profiles, checks, prov, warnings>>

(***************************************************************************)
(* clean_up (ROBOT variant)                                                *)
(***************************************************************************)
\* most files whose removal the operating system refuses in one clean_up
MaxStuck == 1

\* the loop over files left at the first unlink that raises
RECURSIVE UnlinkUntilError(_, _, _, _)
UnlinkUntilError(todo, fs, stuck, warns) ==
    IF todo = << >> THEN [files |-> fs, warnings |-> warns]
    ELSE IF Head(todo) \in DOMAIN fs /\ Head(todo) \notin stuck
    THEN UnlinkUntilError(Tail(todo), Remove(fs, Head(todo)), stuck, warns)
    ELSE [files |-> fs,
          warnings |-> Append(warns, Warning("Cannot remove file", Head(todo)))]

\* the loop over files: unlink raises for a file that is missing or stuck,
\* which is logged; [files, warnings] after the loop
RECURSIVE Unlink(_, _, _, _)
Unlink(todo, fs, stuck, warns) ==
    IF todo = << >> THEN [files |-> fs, warnings |-> warns]
    ELSE IF Head(todo) \in DOMAIN fs /\ Head(todo) \notin stuck
    THEN Unlink(Tail(todo), Remove(fs, Head(todo)), stuck, warns)
    ELSE Unlink(Tail(todo), fs, stuck,
                Append(warns, Warning("Cannot remove file", Head(todo))))

CleanUp ==
    /\ pc = "cleanup"
    /\ \E stuck \in SUBSET DOMAIN files, refused \in BOOLEAN :
          /\ Cardinality(stuck) <= MaxStuck
          /\ LET todo == <<CatalogFile, ResultFile>>
                            \o [i \in 1..Len(graphs) |-> graphs[i].file]
                 left == Unlink(todo, files, stuck, warnings)
                 \* rmdir raises when the directory is not empty
                 fails == DOMAIN left.files # {} \/ refused
             IN /\ files' = left.files
                /\ tempExists' = fails
                /\ warnings' = IF fails
                               THEN Append(left.warnings,
                                           Warning("Cannot remove directory", << >>))
                               ELSE left.warnings
    /\ pc' = "done"
    /\ UNCHANGED <<envVars, tokens, self, consumed, roots, graphs, fetched,
                   tempCreated, calls, engine, upload, valid_profiles, checks, prov,
                   report, error>>

(***************************************************************************)
(* Specifications.                                                         *)
(***************************************************************************)
Next ==
    \/ ReasonInit
    \/ RobotInit
    \/ ReasonExecute
    \/ RobotExecute
    \/ ReasonGetGraphsTree
    \/ RobotGetGraphsTree
    \/ ReasonGetGraphs
    \/ RobotGetGraphs
    \/ CreateXmlCatalogFile
    \/ ReasonReason
    \/ RobotReason
    \/ ReasonSendResult
    \/ RobotSendResult
    \/ PostValidProfiles
    \/ GetProvenance
    \/ PostProvenance
    \/ CleanUp

Spec == Init /\ [][Next]_vars

\* the resolver alone, over every store
NextTree ==
    \/ ReasonInit
    \/ RobotInit
    \/ ReasonExecute
    \/ RobotExecute
    \/ ReasonGetGraphsTree
    \/ RobotGetGraphsTree

SpecTree == InitTree /\ [][NextTree]_vars

(***************************************************************************)
(* Properties.                                                             *)
(***************************************************************************)
\* execute has returned or raised
Terminal == pc \in {"done", "failed"}

\* get_graphs_tree has returned its closure
Resolved ==
    pc \in {"fetch", "catalog", "reason", "send", "profiles", "prov", "post_prov",
            "cleanup", "done"}

\* the uploads that reached the store and were answered
Uploads == {i \in 1..Len(calls) : calls[i].kind = "post_streamed"}

\* every call to the store so far has succeeded
StoreCallsSucceeded == \A i \in 1..Len(calls) : calls[i].kind # "robot" => calls[i].ok

\* C1: in the Reason variant the closure get_graphs_tree returns for
\* (data, ontology, output) never has the output graph as a key, whatever the
\* import trees of the store are.
C1_OutputNeverKey ==
    (variant = "reason" /\ Resolved) => self.output_graph_iri \notin Keys(graphs)

\* the identifier the resolver is to leave out: the output graph in the Reason
\* variant, none in the ROBOT variant
Excluded == IF variant = "reason" THEN {self.output_graph_iri} ELSE {}

\* C2: the keys of the closure are exactly the graphs reachable from the roots
\* (data, ontology) through import edges, the excluded identifier left out, one
\* entry per graph.
C2_ClosureIsReachableSet ==
    Resolved =>
        /\ Keys(graphs)
             = Reachable({self.data_graph_iri, self.ontology_graph_iri}) \ Excluded
        /\ Len(graphs) = Cardinality(Keys(graphs))

\* C3: with a valid configuration, every store call succeeding and the engine
\* exiting with status 0, execute returns without raising and the output graph
\* has been replaced exactly once, acknowledged with 204.
C3_SuccessCompletes ==
    (/\ Terminal
     /\ ConstructErrors(args) = << >>
     /\ engine.returncode = 0
     /\ StoreCallsSucceeded)
    => (/\ pc = "done"
        /\ Cardinality(Uploads) = 1
        /\ \A i \in Uploads : calls[i].target = args.output_graph_iri
        /\ upload = HTTP_NO_CONTENT)

\* C4: in the Reason variant, once the workspace has been created, it no
\* longer exists when execute has returned or raised, on every exit path.
C4_WorkspaceRemoved ==
    (variant = "reason" /\ Terminal /\ tempCreated)
    => (~tempExists /\ DOMAIN files = {})

\* the engine has failed in the Reason variant and execute has raised
C4_Witness ==
    /\ variant = "reason"
    /\ pc = "failed"
    /\ tempCreated
    /\ engine.returncode > 0
    /\ DOMAIN files = {}
    /\ ~tempExists

\* C5: in the ROBOT variant the workspace directory and every file staged in
\* it are gone when execute has returned or raised, on every exit path.
C5_RobotWorkspaceRemoved ==
    (variant = "robot" /\ Terminal) => (~tempExists /\ DOMAIN files = {})

\* C6: in both variants, when the reasoning subprocess exits with a non-zero
\* status, execute fails with an error and uploads no result.
C6_EngineFailureFatal ==
    engine.returncode > 0 => (Uploads = {} /\ (Terminal => pc = "failed"))

C8_UploadNeeds204 ==
    /\ (upload # 0 /\ upload # HTTP_NO_CONTENT)
          => (/\ pc = "failed"
              /\ error.type = "OSError"
              /\ ToString(upload) \in Range(error.msg))
    /\ pc = "done" => upload = HTTP_NO_CONTENT

\* C9: in both variants a configuration without any axiom generator is
\* rejected with an error before any call to the store and before any
\* subprocess.
C9_NoAxiomsRejectedEarly ==
    args.axioms = {}
    => (/\ calls = << >>
        /\ pc \in {"rejected", "failed"} => error.type = "ValueError")

\* C10: in the Reason variant a configuration whose output graph IRI equals
\* the data graph IRI or the ontology graph IRI is rejected with a ValueError
\* by __init__: no instance comes to exist and no external call is made.
C10_OutputRoleRejected ==
    (/\ variant = "reason"
     /\ \/ args.output_graph_iri = args.data_graph_iri
        \/ args.output_graph_iri = args.ontology_graph_iri)
    => (/\ pc \in {"new", "rejected"}
        /\ self = NullPlugin
        /\ calls = << >>
        /\ pc = "rejected" => error.type = "ValueError")

\* a configuration whose only fault is output = data has been rejected
C10_Witness ==
    /\ variant = "reason"
    /\ pc = "rejected"
    /\ args.output_graph_iri = args.data_graph_iri
    /\ error = Raised("ValueError",
                      <<"Result graph IRI cannot be the same as the data graph IRI.">>)

\* C11: a configuration of ReasonPlugin in which two of the three graph roles
\* (data, ontology, output) carry the same identifier, data = ontology among
\* them, is rejected as a configuration error before any external call: no
\* call is ever made for it, and what it ends with is a ValueError.
C11_DuplicateRolesRejected ==
    (/\ variant = "reason"
     /\ \/ args.data_graph_iri = args.ontology_graph_iri
        \/ args.output_graph_iri = args.data_graph_iri
        \/ args.output_graph_iri = args.ontology_graph_iri)
    => (/\ calls = << >>
        /\ pc \notin {"new", "ready"} => (pc \in {"rejected", "failed"}
                                          /\ error.type = "ValueError"))

\* C12: with every other parameter valid, ReasonPlugin.__init__ accepts the
\* maximum RAM percentage p exactly when 1 <= p <= 100: of 0, 1, 100 and 101
\* it accepts 1 and 100 and rejects 0 and 101, naming the parameter.
C12_RamPercentageRange ==
    (/\ variant = "reason"
     /\ pc # "new"
     /\ ConstructErrors([args EXCEPT !.max_ram_percentage
                                        = MAX_RAM_PERCENTAGE_DEFAULT]) = << >>)
    => (/\ pc # "rejected" <=> args.max_ram_percentage \in {1, 100}
        /\ pc = "rejected" <=> args.max_ram_percentage \in {0, 101}
        /\ pc = "rejected"
             => error = Raised("ValueError",
                    <<"Invalid value for parameter \"Maximum RAM Percentage\".">>))

\* the percentage 100 has been accepted and the instance has run to its end
C12_Witness ==
    /\ variant = "reason"
    /\ args.max_ram_percentage = 100
    /\ self.max_ram_percentage = 100
    /\ pc = "done"

\* C13: in both variants a reasoner outside elk, emr, hermit, jfact,
\* structural and whelk is rejected as a configuration error before the engine
\* subprocess is invoked: the engine is never run for such a configuration,
\* and execute never returns for it.
C13_UnknownReasonerRejected ==
    args.reasoner \notin REASONERS
    => (/\ engine = NoProcess
        /\ \A i \in 1..Len(calls) : calls[i].kind # "robot"
        /\ pc # "done")

\* the calls of robot() for a profile check, in the order they were made
ProfileCallTargets ==
    LET IsCheck(c) == c.kind = "robot" /\ Head(c.target) = "validate-profile"
        made == SelectSeq(calls, IsCheck)
    IN [i \in 1..Len(made) |-> made[i].target[2]]

\* C14: validate_profiles short-circuits on the Full profile: when the output
\* of the Full check does not end with the success marker, the list returned
\* is empty and the Full check is the only check invoked, whatever the checks
\* for DL, EL, QL and RL would have printed.
C14_FullShortCircuit ==
    (/\ checks # << >>
     /\ checks[1].stdout \in {NotInProfile("Full"), MarkerOneBreak("Full")})
    => (/\ valid_profiles = << >>
        /\ checks[1].profile = "Full"
        /\ Len(checks) = 1
        /\ ProfileCallTargets = <<"Full">>)

\* the Full check printed the marker followed by a single line break, and
\* execute has returned
C14_Witness ==
    /\ pc = "done"
    /\ checks = <<[profile |-> "Full", stdout |-> MarkerOneBreak("Full")]>>
    /\ valid_profiles = << >>

\* C15: when the Full check succeeds, validate_profiles invokes the checks in
\* the order Full, DL, EL, QL, RL, all five of them, and a profile is in the
\* list returned exactly when the output of its own check ends with the
\* success marker; the list keeps the order of the checks.
C15_ProfilesInOrder ==
    (/\ checks # << >>
     /\ checks[1].stdout = InProfile("Full"))
    => LET InIt(p) == \E i \in 1..Len(checks) :
                         checks[i].profile = p /\ checks[i].stdout = InProfile(p)
       IN /\ [i \in 1..Len(checks) |-> checks[i].profile] = PROFILES
          /\ ProfileCallTargets = PROFILES
          /\ valid_profiles = SelectSeq(PROFILES, InIt)

\* the checks for DL and QL failed, those after them were run and succeeded
C15_Witness ==
    /\ pc = "done"
    /\ Len(checks) = 5
    /\ checks[2].stdout = << >>
    /\ checks[4].stdout = NotInProfile("QL")
    /\ valid_profiles = <<"Full", "EL", "RL">>

\* get_graphs has returned and the workspace has not been touched since
Materialized == pc \in {"catalog", "reason", "send", "profiles", "prov", "post_prov",
                        "cleanup"}

\* C16: after materialization the staged file of the data graph contains
\* exactly one statement `<data graph> owl:imports <ontology graph> .`,
\* whatever the store returned for the data graph, and the staged file of no
\* other member of the closure has had that statement added to what the store
\* returned for it.
C16_ExactlyOneSyntheticImport ==
    Materialized
    => LET statement == ImportsStatement(self.data_graph_iri, self.ontology_graph_iri)
           Count(lines) == Cardinality({i \in 1..Len(lines) : lines[i] = statement})
       IN \A i \in 1..Len(graphs) :
             /\ graphs[i].file \in DOMAIN files
             /\ IF graphs[i].iri = self.data_graph_iri
                THEN Count(files[graphs[i].file]) = 1
                ELSE Count(files[graphs[i].file]) = Count(GraphText(graphs[i].iri))

\* C17: in every closure a resolver returns, in the variant with random
\* tokens and in the variant with slugs, the local filenames are unique: no
\* two graph identifiers of the closure are mapped to the same filename.
C17_FilenamesUnique ==
    Resolved
    => \A i, j \in 1..Len(graphs) :
          graphs[i].file = graphs[j].file => graphs[i].iri = graphs[j].iri

\* the stage of _execute (of execute in the ROBOT variant) an external call
\* belongs to: 1 closure resolution, 2 graph fetching, 3 engine invocation,
\* 4 result publication, 5 profile posting, 6 and 7 provenance
StageOf(call) ==
    IF call.kind = "get_graph_import_tree" THEN 1
    ELSE IF call.kind = "get" THEN 2
    ELSE IF call.kind = "robot" /\ call.target = <<"reason">> THEN 3
    ELSE IF call.kind = "post_streamed" THEN 4
    ELSE IF call.kind = "robot" THEN 5
    ELSE IF call.kind = "post_update" /\ call.target = <<"profile">> THEN 5
    ELSE IF call.kind = "post_select" THEN 6
    ELSE 7

\* C18: within one execution the stages run in the order closure resolution,
\* graph fetching, catalog emission, engine invocation, result publication,
\* then (Reason variant) profile posting and provenance: the external calls
\* are made in the order of their stages; a graph is fetched only when no
\* import-tree query is left; the engine is started only when every closure
\* member is staged and the catalog is written; the result is posted only
\* when the engine has exited; profiles and provenance follow the upload.
C18_StagesInOrder ==
    /\ [](\A i, j \in 1..Len(calls) :
             i < j => StageOf(calls[i]) <= StageOf(calls[j]))
    /\ [][\A k \in (Len(calls) + 1)..Len(calls') :
             /\ StageOf(calls'[k]) = 2 => roots = << >>
             /\ StageOf(calls'[k]) = 3
                   => (/\ fetched = Len(graphs)
                       /\ \A i \in 1..Len(graphs) : graphs[i].file \in DOMAIN files
                       /\ CatalogFile \in DOMAIN files
                       /\ ResultFile \notin DOMAIN files)
             /\ StageOf(calls'[k]) = 4
                   => (engine.returncode >= 0 /\ upload = 0)
             /\ StageOf(calls'[k]) >= 5
                   => (variant = "reason" /\ upload = HTTP_NO_CONTENT)
             /\ StageOf(calls'[k]) = 7 => prov = "record"]_vars

\* an execution of the Reason variant over a closure of four graphs has gone
\* through every stage, the profile checks and the provenance among them
C18_Witness ==
    /\ variant = "reason"
    /\ pc = "done"
    /\ Len(graphs) = 4
    /\ Len(checks) = 5
    /\ prov = "record"
    /\ {StageOf(calls[i]) : i \in 1..Len(calls)} = 1..7

C20_ProvenanceBestEffort ==
    prov = "none"
    => (/\ Warning("Could not add provenance data to output graph.", << >>)
              \in Range(warnings)
        /\ calls[Len(calls)] = Call("post_select", <<"type">>, TRUE)
        /\ \A i \in 1..Len(calls) : StageOf(calls[i]) # 7
        /\ upload = HTTP_NO_CONTENT
        /\ error = NoError
        /\ pc \in {"post_prov", "done"}
        /\ pc = "done" => report = "ontology and data graph processed.")

\* the task had no type/label binding and execute has returned
C20_Witness ==
    /\ variant = "reason"
    /\ prov = "none"
    /\ pc = "done"
    /\ warnings # << >>
    /\ upload = HTTP_NO_CONTENT
    /\ report = "ontology and data graph processed."

\* C21: in the ROBOT variant a failure to delete a staged file or the
\* workspace directory during clean_up is only logged as a warning: clean_up
\* does not raise, every file of its list is either gone or has its warning,
\* the directory is either gone or has its warning, and execute returns
\* without an error.
C21_CleanUpOnlyWarns ==
    (variant = "robot" /\ pc = "done")
    => (/\ error = NoError
        /\ \A name \in {CatalogFile, ResultFile}
                        \cup {graphs[i].file : i \in 1..Len(graphs)} :
              \/ name \notin DOMAIN files
              \/ Warning("Cannot remove file", name) \in Range(warnings)
        /\ \/ ~tempExists
           \/ Warning("Cannot remove directory", << >>) \in Range(warnings))

\* the removal of the catalog was refused, the files after it were removed
\* all the same, and execute has returned with the directory left behind
C21_Witness ==
    /\ variant = "robot"
    /\ pc = "done"
    /\ DOMAIN files = {CatalogFile}
    /\ tempExists
    /\ Warning("Cannot remove file", CatalogFile) \in Range(warnings)
    /\ Warning("Cannot remove directory", << >>) \in Range(warnings)
    /\ error = NoError

\* C22: the catalog emitted has exactly one uri entry per closure member and
\* no other entry; the name of an entry is the graph identifier, its uri the
\* local file the closure assigns to that identifier, and the ids of the
\* entries are pairwise distinct.
C22_CatalogMatchesClosure ==
    CatalogFile \in DOMAIN files
    => LET catalog == files[CatalogFile]
       IN /\ \A g \in Keys(graphs) :
                Cardinality({k \in 1..Len(catalog) : catalog[k].name = g}) = 1
          /\ \A k \in 1..Len(catalog) :
                \E i \in 1..Len(graphs) :
                   graphs[i].iri = catalog[k].name /\ graphs[i].file = catalog[k].uri
          /\ \A k, l \in 1..Len(catalog) :
                catalog[k].id = catalog[l].id => k = l

\* the catalog of a closure of four graphs, written in the ROBOT variant
C22_Witness ==
    /\ variant = "robot"
    /\ pc = "reason"
    /\ Len(graphs) = 4
    /\ CatalogFile \in DOMAIN files
    /\ Len(files[CatalogFile]) = 4
    /\ files[CatalogFile][4].name = ImpIri
    /\ files[CatalogFile][4].id = <<"id", "3">>

\* C23: in the Reason variant, after materialization no staged file of a
\* closure member g contains the line `<g> owl:imports <output graph> .`:
\* every such line of the fetched content is dropped, and every other line is
\* written unchanged and in the original order (before the statement added
\* to the file of the data graph).
C23_OutputImportStripped ==
    (variant = "reason" /\ Materialized)
    => \A i \in 1..Len(graphs) :
          LET g == graphs[i].iri
              staged == files[graphs[i].file]
              fetched_part == IF g = self.data_graph_iri
                              THEN SubSeq(staged, 1, Len(staged) - 1) ELSE staged
              Other(line) == line # <<g, "http://www.w3.org/2002/07/owl#imports",
                                      self.output_graph_iri>>
          IN /\ \A k \in 1..Len(staged) : Other(staged[k])
             /\ fetched_part = SelectSeq(GraphText(g), Other)

\* the data graph declares the import of the output graph in the store, and
\* its staged file holds the other three lines and the statement added
C23_Witness ==
    /\ variant = "reason"
    /\ pc = "reason"
    /\ self.output_graph_iri \in DirectImports(self.data_graph_iri)
    /\ Len(GraphText(self.data_graph_iri)) = 4
    /\ Len(files[graphs[1].file]) = 4
    /\ graphs[1].iri = self.data_graph_iri

\* C24: in the Reason variant with "validate OWL profiles" and "process valid
\* OWL profiles from input" both enabled, no validate-profile subprocess is
\* started, the ontology of the run is the one the input entity gives on the
\* path "ontology", and the profiles posted are the ones that entity gives on
\* the path "profile"; with "validate OWL profiles" disabled no profile check
\* is run and no profile statement is posted.
C24_ProfilesFromInput ==
    variant = "reason"
    => /\ (/\ args.validate_profile
           /\ args.input_profiles
           /\ pc \notin {"new", "ready", "rejected"})
          => LET values == inputs[1].entities[1]
                 paths == inputs[1].paths
             IN /\ checks = << >>
                /\ \A i \in 1..Len(calls) : calls[i].kind = "robot" => StageOf(calls[i]) = 3
                /\ error = NoError
                      => self.ontology_graph_iri = values[IndexOf(paths, "ontology")][1]
                /\ error.type # "StopIteration"
                /\ pc \in {"prov", "post_prov", "done"}
                      => valid_profiles = values[IndexOf(paths, "profile")]
       /\ ~args.validate_profile
          => (checks = << >> /\ \A i \in 1..Len(calls) : StageOf(calls[i]) # 5)

\* C25: in the Reason variant with "process valid OWL profiles from input"
\* enabled, execute validates its input before it creates the workspace or
\* makes any call: an empty input sequence yields the error `Input entities
\* needed if "Process valid OWL profiles from input" is enabled`, and an
\* ontology IRI of the input that is invalid or equal to the data or the
\* output graph IRI yields one ValueError that lists every violated check.
C25_InputValidatedFirst ==
    (/\ variant = "reason"
     /\ args.input_profiles
     /\ pc \notin {"new", "rejected", "ready"})
    => IF inputs = << >>
       THEN /\ pc = "failed"
            /\ error.msg = <<"Input entities needed if \"Process valid OWL profiles from input\" is enabled">>
            /\ calls = << >>
            /\ ~tempCreated
       ELSE LET onto == inputs[1].entities[1][IndexOf(inputs[1].paths, "ontology")][1]
            IN (~ValidUrl(onto) \/ onto = args.data_graph_iri
                                \/ onto = args.output_graph_iri)
               => (/\ pc = "failed"
                   /\ error.type = "ValueError"
                   /\ calls = << >>
                   /\ ~tempCreated
                   /\ ~ValidUrl(onto)
                         => "Invalid IRI for parameter \"Ontology graph IRI\"."
                               \in Range(error.msg)
                   /\ onto = args.data_graph_iri
                         => "Ontology graph IRI cannot be the same as the data graph IRI."
                               \in Range(error.msg)
                   /\ onto = args.output_graph_iri
                         => "Ontology graph IRI cannot be the same as the output graph IRI."
                               \in Range(error.msg))

\* the calls that have written to the store: the streamed replace uploads and
\* the SPARQL updates the store has carried out
Writes ==
    {i \in 1..Len(calls) :
        calls[i].kind \in {"post_streamed", "post_update"} /\ calls[i].ok}

\* the graph a call writes to
WrittenGraph(call) == IF call.kind = "post_streamed" THEN call.target ELSE call.graph

\* C26: in every execution, on every path, the only graph of the store that
\* is written to (replace upload, profile INSERT, provenance INSERT) is the
\* configured output graph; the data graph, the ontology graph and every
\* other graph of the closure are only read; and in the Reason variant no
\* write happens before the engine has exited with status 0.
C26_OnlyOutputWritten ==
    \A i \in Writes :
       /\ WrittenGraph(calls[i]) = args.output_graph_iri
       /\ WrittenGraph(calls[i]) # self.data_graph_iri
       /\ WrittenGraph(calls[i]) # self.ontology_graph_iri
       /\ WrittenGraph(calls[i]) \notin Keys(graphs) \ {args.output_graph_iri}
       /\ variant = "reason"
             => (/\ engine.returncode = 0
                 /\ \E j \in 1..(i - 1) : StageOf(calls[j]) = 3 /\ calls[j].ok)

====
